---- MODULE Spec2Model ----
(***************************************************************************)
(* Product-quantization codebook training (src/clustering.cpp): pq_train   *)
(* and the routines it drives - subsample_training_set, the three centroid *)
(* initializers, calculate_distances, compute_centroids, split_clusters.   *)
(*                                                                         *)
(* Numbers.  coord_t / dist_t values are fixed-point integers counted in   *)
(* units of EPS = 1/1024 (the perturbation step of split_clusters), so     *)
(* 1.0 is the integer One = 1024.  Buffers are flat row-major sequences,   *)
(* as in the source; buffer offset o (0-based, as in C) is element o + 1   *)
(* of the sequence.  A float NaN is the reserved value NaN, HUGE_VAL the   *)
(* reserved value HUGE_VAL.                                                 *)
(***************************************************************************)
EXTENDS Integers, Sequences, FiniteSets, TLC

\* ------------------------------------------------------------ constants

\* src/clustering.cpp:20
min_points_per_centroid == 39
\* src/clustering.cpp:21
max_points_per_centroid == 256
\* src/clustering.cpp:22
seed == 1234
\* src/clustering.cpp:23
max_iterations == 25
\* src/clustering.cpp:24   min_improvement = 0.0001 = 1 / min_improvement_inv
min_improvement_inv == 10000
\* src/clustering.cpp:116  EPS = 1 / 1024. = 1 / EPS_INV
EPS_INV == 1024

\* 1.0 in units of EPS
One == EPS_INV
\* a float NaN (0/0 in init_hypercube when n = 0)
NaN == 0 - One * One * One
\* src/clustering.cpp:305  prev_obj = HUGE_VAL (+infinity)
HUGE_VAL == 2147483647

\* ---------------------------------------------------------------- bounds

\* largest pqBits tried: k = 2^pqBits centroids
MaxBits == 1
\* largest pqSubdim tried
MaxDim == 2
\* rows tried beyond the subsampling cap k * max_points_per_centroid
ExtraRows == 2
\* rotations the modelled rand_perm may apply, 0..MaxRot
MaxRot == 1

\* ------------------------------------------------------------ variables

VARIABLES
    trainType,   \* global trainType: "TT_DEFAULT", "TT_HYPERCUBE", "TT_HYPERCUBE_PCA"
    pqBits,      \* meta->pqBits
    d,           \* meta->pqSubdim
    slice_len,   \* argument: number of training rows
    slice,       \* argument: the caller's training buffer, slice_len * d values
    rot,         \* the permutation generator: seed -> rotation it applies
    sigma,       \* the PCA collaborator: sqrt of the leading eigenvalue
    x,           \* local x: the training buffer the iterations read
    nx,          \* local nx
    del1,        \* TRUE when x is the owned subsample (del1 holds it)
    centroids,   \* output buffer, k * d values
    assign,      \* assign[], nx entries (<< >> before the first pass)
    dis,         \* dis[], nx entries
    hassign,     \* hassign[], k entries in units of EPS
    prev_obj,    \* prev_obj
    obj,         \* obj of the current iteration
    iter,        \* loop counter i of the k-means loop
    ci,          \* split_clusters: slot being examined
    cj,          \* split_clusters: donor candidate
    nsplit,      \* split_clusters: repairs done in this call
    ret,         \* the value returned: "none" until the call returns
    ub,          \* TRUE once the call has read or written out of bounds
    pc,          \* position in the code
    k,           \* local k = 1 << pqBits (an argument of the inner routines)
    entry,       \* the routine that was called: "pq_train", ...
    run,         \* 1 in the first call, 2 in a repeated call on the same inputs
    first,       \* what the first call returned and left in the output buffer
    donors,      \* donors the fixed-seed generator made split_clusters accept
    dpos,        \* repeated call: how many of these it has accepted again
    nt,          \* USE_OMP build of compute_centroids: omp_get_num_threads()
    wi,          \* ... each worker's loop index i (rank + 1 -> i)
    writers      \* ... for each centroid, the ranks that have written its row

vars == << trainType, pqBits, d, slice_len, slice, rot, sigma, x, nx, del1,
           centroids, assign, dis, hassign, prev_obj, obj, iter, ci, cj,
           nsplit, ret, ub, pc, k, entry, run, first, donors, dpos, nt, wi,
           writers >>

\* what the caller and the collaborators supply; no step changes it
inputs == << trainType, pqBits, d, slice_len, slice, rot, sigma, k, entry,
             nt >>

\* state of the k-means loop
loopvars == << assign, dis, hassign, prev_obj, obj, iter >>

\* locals of split_clusters
splitvars == << ci, cj, nsplit >>

\* bookkeeping of a repeated call
runvars == << run, first, donors, dpos >>

\* the workers of the parallel accumulation
parvars == << wi, writers >>

\* ------------------------------------------------------- numeric helpers

Abs(a) == IF a < 0 THEN 0 - a ELSE a

\* a / b rounded to nearest, b > 0
RoundDiv(a, b) == IF a >= 0 THEN (a + b \div 2) \div b
                           ELSE 0 - (((0 - a) + b \div 2) \div b)

\* row r (d values) of a flat row-major buffer
Row(buf, dim, r) == [j \in 1..dim |-> buf[r * dim + j]]

Max(a, b) == IF a >= b THEN a ELSE b

\* sum of f[lo..hi]
RECURSIVE SumRange(_, _, _)
SumRange(f, lo, hi) ==
    IF lo > hi THEN 0
    ELSE IF lo = hi THEN f[lo]
    ELSE LET m == (lo + hi) \div 2
         IN  SumRange(f, lo, m) + SumRange(f, m + 1, hi)

\* --------------------------------------------------- the caller's inputs

TrainTypes == {"TT_DEFAULT", "TT_HYPERCUBE", "TT_HYPERCUBE_PCA"}

\* shapes of training data: all rows zero; all rows (0.5, .., 0.5); rows
\* pairwise different; two groups 0.5 apart
Patterns == {"zero", "const", "ramp", "alt"}

Pattern(p, r, j) ==
    CASE p = "zero"  -> 0
      [] p = "const" -> One \div 2
      [] p = "ramp"  -> r + j + 1
      [] OTHER       -> (r % 2) * (One \div 2) + (r % 3) + j

MakeSlice(p, n, dim) ==
    [o \in 1..(n * dim) |-> Pattern(p, (o - 1) \div dim, (o - 1) % dim)]

\* slice lengths around each threshold of pq_train for k centroids
NxValues(kk) ==
    {kk - 1, kk, kk * min_points_per_centroid - 1,
     kk * min_points_per_centroid, kk * max_points_per_centroid}
    \cup {kk * max_points_per_centroid + e : e \in 1..ExtraRows}

\* values an out-of-bounds read may deliver
Garbage == {0, 7}

\* sqrt(eigenvalue) the PCA collaborator may report
Sigmas == {0, One \div 2}

\* ------------------------------------------------ external collaborators

\* rand_perm(perm, n, seed): a permutation of [0, n), the same for the same
\* seed.  The generator is not part of the source; it is modelled as a
\* rotation chosen once per seed.  Element i + 1 is perm[i].
rand_perm(n, sd) == [i \in 1..n |-> ((i - 1) + rot[sd]) % n]

\* hnsw_dist_func(dist_func, a, b, d): squared Euclidean distance of two
\* rows (sequences of dim values)
hnsw_dist_func(a, b, dim) ==
    SumRange([j \in 1..dim |-> (a[j] - b[j]) * (a[j] - b[j])], 1, dim)

\* coordinate-wise mean of n rows; 0/0 is NaN
ColumnMean(buf, dim, n, j) ==
    IF n = 0 THEN NaN
    ELSE RoundDiv(SumRange([r \in 1..n |-> buf[(r - 1) * dim + j + 1]], 1, n), n)

\* PCAMatrix pca(d, nbits); pca.train(n, x): mean, sqrt(eigenvalues[c]) and
\* PCAMat[j + c * d].  The axes are the coordinate axes, the spread along
\* the first one is sigma.
pca_mean(buf, dim, n, j) == ColumnMean(buf, dim, n, j)
pca_sqrt_eigenvalue(c) == IF c = 0 THEN sigma ELSE 0
pca_PCAMat(dim, j, c) == IF j = c THEN 1 ELSE 0

\* ---------------------------------------------------------- initializers

\* float addition with NaN
FAdd(a, b) == IF a = NaN \/ b = NaN THEN NaN ELSE a + b

\* bit j of i as the sign (((i >> j) & 1) ? 1 : -1)
SignBit(i, j) == IF (i \div (2 ^ j)) % 2 = 1 THEN 1 ELSE 0 - 1

\* lines 278-285: centroid row i is training row perm[i].  For i >= n the
\* index perm[i] is read past the end of perm: the row is whatever g holds.
InitRandomSample(dim, kk, n, buf, g) ==
    LET perm == rand_perm(n, seed + 1)
    IN  [o \in 1..(kk * dim) |->
            LET i == (o - 1) \div dim
                j == (o - 1) % dim
            IN  IF i < n THEN buf[perm[i + 1] * dim + j + 1] ELSE g[o]]

\* lines 214-219: maxm, the largest |mean[j]| (a NaN never compares greater)
RECURSIVE HypercubeMaxm(_, _, _, _, _)
HypercubeMaxm(buf, dim, n, j, maxm) ==
    IF j = dim THEN maxm
    ELSE LET m == ColumnMean(buf, dim, n, j)
         IN  HypercubeMaxm(buf, dim, n, j + 1,
                 IF m # NaN /\ Abs(m) > maxm THEN Abs(m) ELSE maxm)

\* lines 201-228: the value left at each offset below k * d.  Row i writes
\* offsets i*d .. i*d + max(nbits, d) - 1 in rising order of j, rows in
\* rising order of i, so offset i*d + j (j < d) is last written by row i.
init_hypercube(dim, nbits, n, buf) ==
    LET maxm == HypercubeMaxm(buf, dim, n, 0, 0)
    IN  [o \in 1..((2 ^ nbits) * dim) |->
            LET i == (o - 1) \div dim
                j == (o - 1) % dim
                m == ColumnMean(buf, dim, n, j)
            IN  IF j < nbits THEN FAdd(m, SignBit(i, j) * maxm) ELSE m]

\* lines 221-227: the buffer offsets the loops write for centroid i
\* (cent[j] for j < nbits, then for nbits <= j < d)
HypercubeWrites(dim, nbits, i) ==
    {i * dim + j : j \in 0..(nbits - 1)} \cup {i * dim + j : j \in nbits..(dim - 1)}

\* lines 224, 226: the elements of mean (a vector of d floats) the loops read
HypercubeMeanReads(dim, nbits) == (0..(nbits - 1)) \cup (nbits..(dim - 1))

\* the call reads past the end of mean or writes past the end of the
\* k * d floats of centroids
HypercubeOverrun(dim, nbits) ==
    \/ \E j \in HypercubeMeanReads(dim, nbits) : j >= dim
    \/ \E i \in 0..(2 ^ nbits - 1) :
           \E o \in HypercubeWrites(dim, nbits, i) : o >= (2 ^ nbits) * dim

\* lines 230-251
RECURSIVE PcaOffset(_, _, _, _, _)
PcaOffset(dim, nbits, i, j, c) ==
    IF c = nbits THEN 0
    ELSE pca_sqrt_eigenvalue(c) * SignBit(i, c) * pca_PCAMat(dim, j, c)
         + PcaOffset(dim, nbits, i, j, c + 1)

init_hypercube_pca(dim, nbits, n, buf) ==
    [o \in 1..((2 ^ nbits) * dim) |->
        LET i == (o - 1) \div dim
            j == (o - 1) % dim
        IN  FAdd(pca_mean(buf, dim, n, j), PcaOffset(dim, nbits, i, j, 0))]

\* ------------------------------------------------------------ subsampler

\* lines 34-51 copying row i instead of row perm[i]
subsample_training_set_NoPerm(dim, kk, n, buf) ==
    LET nnew == kk * max_points_per_centroid
    IN  [nx |-> nnew, x |-> [o \in 1..(nnew * dim) |-> buf[o]]]

\* lines 34-51: row i of the new buffer is row perm[i] of x, for
\* i < k * max_points_per_centroid; returns the new row count and buffer
subsample_training_set(dim, kk, n, buf) ==
    LET perm == rand_perm(n, seed)
        nnew == kk * max_points_per_centroid
    IN  [nx |-> nnew,
         x  |-> [o \in 1..(nnew * dim) |->
                    buf[perm[(o - 1) \div dim + 1] * dim + ((o - 1) % dim) + 1]]]

\* ------------------------------------------------------------------ Init

\* the state of pq_train after lines 259-266, for the inputs tried
Init ==
    /\ trainType \in TrainTypes
    /\ pqBits \in 0..MaxBits
    /\ d \in 1..MaxDim
    /\ k = 2 ^ pqBits
    /\ slice_len \in NxValues(k)
    /\ \E p \in Patterns : slice = MakeSlice(p, slice_len, d)
    /\ rot \in [{seed, seed + 1} -> 0..MaxRot]
    \* a collaborator the call never consults is left at its first choice
    /\ (slice_len <= k * max_points_per_centroid => rot[seed] = 0)
    /\ (trainType # "TT_DEFAULT" => rot[seed + 1] = 0)
    /\ sigma \in Sigmas
    /\ (trainType # "TT_HYPERCUBE_PCA" => sigma = 0)
    /\ entry = "pq_train"
    /\ x = slice
    /\ nx = slice_len
    /\ del1 = FALSE
    /\ centroids = [o \in 1..(k * d) |-> 0]
    /\ assign = << >>
    /\ dis = << >>
    /\ hassign = << >>
    /\ prev_obj = HUGE_VAL
    /\ obj = 0
    /\ iter = 0
    /\ ci = 0
    /\ cj = 0
    /\ nsplit = 0
    /\ ret = "none"
    /\ ub = FALSE
    /\ pc = "init"
    /\ run = 1
    /\ first = << >>
    /\ donors = << >>
    /\ dpos = 0
    /\ nt = 1
    /\ wi = << >>
    /\ writers = << >>

\* ------------------------------------------------- pq_train: lines 268-302

\* lines 276-286, trainType = TT_DEFAULT
RandomSampleInit ==
    /\ pc = "init"
    /\ entry = "pq_train"
    /\ trainType = "TT_DEFAULT"
    /\ \E g \in [{o \in 1..(k * d) : (o - 1) \div d >= nx} -> Garbage] :
          centroids' = InitRandomSample(d, k, nx, x, g)
    /\ ub' = (nx < k)
    /\ pc' = "size"
    /\ UNCHANGED << inputs, x, nx, del1, loopvars, splitvars, ret, runvars, parvars >>

\* lines 270-272 of pq_train, or init_hypercube called on its own
HypercubeInit ==
    /\ pc = "init"
    /\ entry \in {"pq_train", "init_hypercube"}
    /\ trainType = "TT_HYPERCUBE"
    /\ centroids' = init_hypercube(d, pqBits, nx, x)
    /\ ub' = HypercubeOverrun(d, pqBits)
    /\ pc' = IF entry = "pq_train" THEN "size" ELSE "done"
    /\ UNCHANGED << inputs, x, nx, del1, loopvars, splitvars, ret, runvars, parvars >>

\* lines 273-275
HypercubePcaInit ==
    /\ pc = "init"
    /\ entry = "pq_train"
    /\ trainType = "TT_HYPERCUBE_PCA"
    /\ centroids' = init_hypercube_pca(d, pqBits, nx, x)
    /\ pc' = "size"
    /\ UNCHANGED << inputs, x, nx, del1, loopvars, splitvars, ret, ub, runvars, parvars >>

\* an access outside a buffer may also end the process
OutOfBoundsCrash ==
    /\ pc = "init"
    /\ entry \in {"pq_train", "init_hypercube"}
    /\ \/ trainType = "TT_DEFAULT" /\ nx < k
       \/ trainType = "TT_HYPERCUBE" /\ HypercubeOverrun(d, pqBits)
    /\ ub' = TRUE
    /\ pc' = "crashed"
    /\ UNCHANGED << inputs, x, nx, del1, centroids, loopvars, splitvars, ret,
                    runvars, parvars >>

\* line 295
LowData(n, kk) == n < kk * min_points_per_centroid

\* lines 289-302: subsample or low-data abort, then the nx == k corner case
SizeCheck ==
    /\ pc = "size"
    /\ LET big == nx > k * max_points_per_centroid
           sub == subsample_training_set(d, k, nx, x)
           nx1 == IF big THEN sub.nx ELSE nx
           x1  == IF big THEN sub.x ELSE x
       IN  IF ~big /\ LowData(nx, k)
           THEN /\ ret' = "false"
                /\ pc' = "done"
                /\ UNCHANGED << x, nx, del1, centroids >>
           ELSE /\ x' = x1
                /\ nx' = nx1
                /\ del1' = big
                /\ IF nx1 = k
                   THEN /\ centroids' = [o \in 1..(k * d) |-> x1[o]]
                        /\ ret' = "true"
                        /\ pc' = "done"
                   ELSE /\ pc' = "loop"
                        /\ UNCHANGED << centroids, ret >>
    /\ UNCHANGED << inputs, loopvars, splitvars, ub, runvars, parvars >>

\* ------------------------------------------------- calculate_distances

\* lines 187-195 with ip <= min_dist at line 191: the last minimum is kept
RECURSIVE NearestScan_LastWins(_, _, _, _, _, _, _)
NearestScan_LastWins(xi, cent, dim, kk, j, min_dist, min_idx) ==
    IF j = kk THEN << min_dist, min_idx >>
    ELSE LET ip == hnsw_dist_func(xi, Row(cent, dim, j), dim)
         IN  IF ip <= min_dist
             THEN NearestScan_LastWins(xi, cent, dim, kk, j + 1, ip, j)
             ELSE NearestScan_LastWins(xi, cent, dim, kk, j + 1, min_dist, min_idx)

\* lines 187-195: scan centroids j..k-1, keeping the first strict minimum
RECURSIVE NearestScan(_, _, _, _, _, _, _)
NearestScan(xi, cent, dim, kk, j, min_dist, min_idx) ==
    IF j = kk THEN << min_dist, min_idx >>
    ELSE LET ip == hnsw_dist_func(xi, Row(cent, dim, j), dim)
         IN  IF ip < min_dist
             THEN NearestScan(xi, cent, dim, kk, j + 1, ip, j)
             ELSE NearestScan(xi, cent, dim, kk, j + 1, min_dist, min_idx)

\* lines 175-199: element i + 1 is << dis[i], assign[i] >>
calculate_distances(dim, kk, cent, n, buf) ==
    [i \in 1..n |-> NearestScan(Row(buf, dim, i - 1), cent, dim, kk, 0, HUGE_VAL, 0)]

\* lines 311-314
Objective(ds, n) == SumRange(ds, 1, n)

\* line 316 with the difference taken the other way round
ShouldBreak_Swapped(prev, o) ==
    IF prev = HUGE_VAL THEN FALSE
    ELSE IF prev = 0 THEN o < 0
    ELSE o - prev < (prev - 1) \div min_improvement_inv + 1

\* line 316 written !((prev_obj - obj) / prev_obj >= min_improvement): a NaN
\* quotient then leaves the loop
ShouldBreak_NanStops(prev, o) ==
    IF prev = HUGE_VAL THEN TRUE
    ELSE IF prev = 0 THEN TRUE
    ELSE IF prev > 0 THEN prev - o < (prev - 1) \div min_improvement_inv + 1
    ELSE prev - o >= 0 \/ o - prev < ((0 - prev) - 1) \div min_improvement_inv + 1

\* line 316: (prev_obj - obj) / prev_obj < min_improvement in IEEE arithmetic.
\* inf/inf and 0/0 are NaN, which compares false; x/0 is an infinity of the
\* sign of x.
ShouldBreak(prev, o) ==
    IF prev = HUGE_VAL THEN FALSE
    ELSE IF prev = 0 THEN o > 0
    ELSE IF prev > 0 THEN prev - o < (prev - 1) \div min_improvement_inv + 1
    ELSE prev - o >= 0 \/ o - prev < ((0 - prev) - 1) \div min_improvement_inv + 1

\* --------------------------------------------------- compute_centroids

\* lines 85-98: hassign[c] after the accumulation, from hassign h0 on entry
Histogram(kk, n, asg, h0) ==
    [c \in 1..kk |->
        h0[c] + One * Cardinality({i \in 1..n : asg[i] = c - 1})]

\* lines 71, 85-98: centroids[c * d + j] after the accumulation
Accumulated(dim, n, buf, asg, c, j) ==
    SumRange([i \in 1..n |-> IF asg[i] = c THEN buf[(i - 1) * dim + j + 1] ELSE 0],
             1, n)

\* lines 62-113 without USE_OMP: hassign and centroids on return.  The
\* product with norm = 1 / hassign[ci] is the quotient, rounded once.
compute_centroids(dim, kk, n, buf, asg, h0) ==
    LET h == Histogram(kk, n, asg, h0)
    IN  [hassign   |-> h,
         centroids |-> [o \in 1..(kk * dim) |->
             LET c   == (o - 1) \div dim
                 j   == (o - 1) % dim
                 acc == Accumulated(dim, n, buf, asg, c, j)
             IN  IF h[c + 1] = 0 THEN acc ELSE RoundDiv(acc * One, h[c + 1])]]

\* ------------------------------------------------------- split_clusters

\* draws of rng.rand_float() tried, in units of EPS: 0, 1/4, just below 1
RandDraws == {0, One \div 4, One - 1}

\* lines 141-143 with p = (hassign[cj] - 2.0) / (float)(n - k)
Accepts_MinusTwo(h, n, kk, r) ==
    IF n > kk THEN r * (n - kk) < h - 2 * One
    ELSE IF n = kk THEN h > 2 * One
    ELSE r = 0 /\ h > 2 * One

\* lines 141-143: r < p for p = (hassign[cj] - 1.0) / (float)(n - k).
\* n - k is a size_t: for n = k, p is +inf, NaN or -inf; for n < k it wraps
\* to about 2^64 and p is positive but below every draw except 0.
Accepts(h, n, kk, r) ==
    IF n > kk THEN r * (n - kk) < h - One
    ELSE IF n = kk THEN h > One
    ELSE r = 0 /\ h > One

\* c * (1 + EPS) for up = 1, c * (1 - EPS) for up = -1.  A float product
\* moves every nonzero c by at least one unit in its last place; zero stays.
Perturb(c, up) ==
    IF c = 0 THEN 0
    ELSE IF c > 0 THEN c + up * Max(1, RoundDiv(c, EPS_INV))
    ELSE c - up * Max(1, RoundDiv(0 - c, EPS_INV))

\* lines 147-160: the centroid table after slot i is rebuilt from donor j
SplitRows(dim, cent, i, j) ==
    [o \in 1..Len(cent) |->
        LET r   == (o - 1) \div dim
            col == (o - 1) % dim
            up  == IF col % 2 = 0 THEN 1 ELSE 0 - 1
        IN  IF r = i THEN Perturb(cent[j * dim + col + 1], up)
            ELSE IF r = j THEN Perturb(cent[o], 0 - up)
            ELSE cent[o]]

\* lines 162-164 with the division by 2 forgotten: the donor gives all
SplitCounts_NoHalving(h, i, j) ==
    [c \in 1..Len(h) |->
        IF c = i + 1 THEN h[j + 1]
        ELSE IF c = j + 1 THEN h[j + 1] - h[j + 1]
        ELSE h[c]]

\* lines 162-164 without line 164: the donor keeps its whole count
SplitCounts_DonorKeeps(h, i, j) ==
    [c \in 1..Len(h) |->
        IF c = i + 1 THEN h[j + 1] \div 2
        ELSE h[c]]

\* lines 162-164: the histogram after the donor's count is divided
SplitCounts(h, i, j) ==
    [c \in 1..Len(h) |->
        IF c = i + 1 THEN h[j + 1] \div 2
        ELSE IF c = j + 1 THEN h[j + 1] - h[j + 1] \div 2
        ELSE h[c]]

\* ------------------------------------------------- pq_train: lines 305-334

\* line 334 reporting whether the loop converged
LoopResult_Converged(converged) == IF converged THEN "true" ELSE "false"

\* line 334: the value returned once the loop is left, by the break
\* (converged) or with the budget used up
LoopResult(converged) == "true"

\* line 307 with i <= max_iterations for the loop test
LoopHead_OneMore ==
    /\ pc = "loop"
    /\ IF iter <= max_iterations
       THEN pc' = "dist" /\ ret' = ret
       ELSE pc' = "done" /\ ret' = LoopResult(FALSE)
    /\ UNCHANGED << inputs, x, nx, del1, centroids, loopvars, splitvars, ub,
                    runvars, parvars >>

\* line 307, and line 334 when the budget is used up
LoopHead ==
    /\ pc = "loop"
    /\ IF iter < max_iterations
       THEN pc' = "dist" /\ ret' = ret
       ELSE pc' = "done" /\ ret' = LoopResult(FALSE)
    /\ UNCHANGED << inputs, x, nx, del1, centroids, loopvars, splitvars, ub,
                    runvars, parvars >>

\* line 308
CalculateDistances ==
    /\ pc = "dist"
    /\ LET res == calculate_distances(d, k, centroids, nx, x)
       IN  /\ dis' = [i \in 1..nx |-> res[i][1]]
           /\ assign' = [i \in 1..nx |-> res[i][2]]
    /\ pc' = "obj"
    /\ UNCHANGED << inputs, x, nx, del1, centroids, hassign, prev_obj, obj,
                    iter, splitvars, ret, ub, runvars, parvars >>

\* lines 311-314
AccumulateObjective ==
    /\ pc = "obj"
    /\ obj' = Objective(dis, nx)
    /\ pc' = "check"
    /\ UNCHANGED << inputs, x, nx, del1, centroids, assign, dis, hassign,
                    prev_obj, iter, splitvars, ret, ub, runvars, parvars >>

\* lines 316-318, and line 334 after the break
ConvergenceCheck ==
    /\ pc = "check"
    /\ IF ShouldBreak(prev_obj, obj)
       THEN pc' = "done" /\ ret' = LoopResult(TRUE) /\ prev_obj' = prev_obj
       ELSE pc' = "update" /\ ret' = ret /\ prev_obj' = obj
    /\ UNCHANGED << inputs, x, nx, del1, centroids, assign, dis, hassign, obj,
                    iter, splitvars, ub, runvars, parvars >>

\* lines 321-330 with hassign declared once, before the loop: the counts of
\* the iteration before are still in it
ComputeCentroids_StaleHistogram ==
    /\ pc = "update"
    /\ LET h0  == IF hassign = << >> THEN [c \in 1..k |-> 0] ELSE hassign
           res == compute_centroids(d, k, nx, x, assign, h0)
       IN  /\ hassign' = res.hassign
           /\ centroids' = res.centroids
    /\ ci' = 0
    /\ cj' = 0
    /\ nsplit' = 0
    /\ pc' = "split"
    /\ UNCHANGED << inputs, x, nx, del1, assign, dis, prev_obj, obj, iter, ret,
                    ub, runvars, parvars >>

\* lines 321-330: a fresh all-zero hassign, then compute_centroids
ComputeCentroids ==
    /\ pc = "update"
    /\ LET res == compute_centroids(d, k, nx, x, assign, [c \in 1..k |-> 0])
       IN  /\ hassign' = res.hassign
           /\ centroids' = res.centroids
    /\ ci' = 0
    /\ cj' = 0
    /\ nsplit' = 0
    /\ pc' = "split"
    /\ UNCHANGED << inputs, x, nx, del1, assign, dis, prev_obj, obj, iter, ret,
                    ub, runvars, parvars >>

\* lines 136-137 and 169: next slot, or return (to line 333 of pq_train)
SplitScan ==
    /\ pc = "split"
    /\ IF ci >= k
       THEN /\ pc' = IF entry = "pq_train" THEN "loop" ELSE "done"
            /\ iter' = iter + 1
            /\ UNCHANGED << ci, cj >>
       ELSE IF hassign[ci + 1] = 0
            THEN pc' = "donor" /\ cj' = 0 /\ UNCHANGED << ci, iter >>
            ELSE pc' = "split" /\ ci' = ci + 1 /\ UNCHANGED << cj, iter >>
    /\ UNCHANGED << inputs, x, nx, del1, centroids, assign, dis, hassign,
                    prev_obj, obj, nsplit, ret, ub, runvars, parvars >>

\* lines 139-146: one draw; accept cj or move on to the next candidate.  A
\* repeated call sees the draws of the first one again, so it accepts where
\* the first call did.
DonorDraw ==
    /\ pc = "donor"
    /\ \E r \in RandDraws :
          IF /\ Accepts(hassign[cj + 1], nx, k, r)
             /\ (run = 2 /\ dpos < Len(donors) => donors[dpos + 1] = cj)
          THEN /\ pc' = "repair"
               /\ cj' = cj
               /\ donors' = IF run = 1 THEN Append(donors, cj) ELSE donors
               /\ dpos' = IF run = 2 THEN dpos + 1 ELSE dpos
          ELSE /\ pc' = "donor"
               /\ cj' = (cj + 1) % k
               /\ UNCHANGED << donors, dpos >>
    /\ UNCHANGED << inputs, x, nx, del1, centroids, loopvars, ci, nsplit, ret,
                    ub, run, first, parvars >>

\* lines 147-165
Repair ==
    /\ pc = "repair"
    /\ centroids' = SplitRows(d, centroids, ci, cj)
    /\ hassign' = SplitCounts(hassign, ci, cj)
    /\ nsplit' = nsplit + 1
    /\ ci' = ci + 1
    /\ pc' = "split"
    /\ UNCHANGED << inputs, x, nx, del1, assign, dis, prev_obj, obj, iter, cj,
                    ret, ub, runvars, parvars >>

\* ----------------------------------------------------------------- Spec

Next ==
    \/ RandomSampleInit
    \/ HypercubeInit
    \/ HypercubePcaInit
    \/ OutOfBoundsCrash
    \/ SizeCheck
    \/ LoopHead
    \/ CalculateDistances
    \/ AccumulateObjective
    \/ ConvergenceCheck
    \/ ComputeCentroids
    \/ SplitScan
    \/ DonorDraw
    \/ Repair

Spec == Init /\ [][Next]_vars

\* ------------------------------------------ the same call, made again

\* pq_train called a second time with the same metadata, slice, mode and
\* seed, and a fresh output buffer
Rerun ==
    /\ entry = "pq_train"
    /\ pc = "done"
    /\ run = 1
    /\ first' = [ret |-> ret, centroids |-> centroids]
    /\ run' = 2
    /\ dpos' = 0
    /\ x' = slice
    /\ nx' = slice_len
    /\ del1' = FALSE
    /\ centroids' = [o \in 1..(k * d) |-> 0]
    /\ assign' = << >>
    /\ dis' = << >>
    /\ hassign' = << >>
    /\ prev_obj' = HUGE_VAL
    /\ obj' = 0
    /\ iter' = 0
    /\ ci' = 0
    /\ cj' = 0
    /\ nsplit' = 0
    /\ ret' = "none"
    /\ ub' = FALSE
    /\ pc' = "init"
    /\ UNCHANGED << inputs, donors, parvars >>

SpecRepeat == Init /\ [][Next \/ Rerun]_vars

\* ------------------------- recomputation and repair on any assignment

\* most centroids tried when the inner routines are exercised directly
MaxUnitK == 3
\* rows tried beyond k there
UnitExtra == 1

\* lines 321-332 of pq_train entered with an arbitrary assignment vector
\* of n >= k rows
InitRecompute ==
    /\ entry = "recompute"
    /\ trainType = "TT_DEFAULT"
    /\ pqBits = 0
    /\ d \in 1..2
    /\ k \in 1..MaxUnitK
    /\ nx \in k..(k + UnitExtra)
    /\ slice_len = nx
    /\ \E p \in {"zero", "ramp", "alt"} : slice = MakeSlice(p, nx, d)
    /\ x = slice
    /\ rot = [sd \in {seed, seed + 1} |-> 0]
    /\ sigma = 0
    /\ del1 = FALSE
    /\ centroids = [o \in 1..(k * d) |-> 0]
    /\ assign \in [1..nx -> 0..(k - 1)]
    /\ dis = [i \in 1..nx |-> 0]
    /\ hassign = << >>
    /\ prev_obj = HUGE_VAL
    /\ obj = 0
    /\ iter = 0
    /\ ci = 0
    /\ cj = 0
    /\ nsplit = 0
    /\ ret = "none"
    /\ ub = FALSE
    /\ pc = "update"
    /\ run = 1
    /\ first = << >>
    /\ donors = << >>
    /\ dpos = 0
    /\ nt = 1
    /\ wi = << >>
    /\ writers = << >>

NextRecompute ==
    \/ ComputeCentroids
    \/ SplitScan
    \/ DonorDraw
    \/ Repair

SpecRecompute == InitRecompute /\ [][NextRecompute]_vars

\* ------------------------- compute_centroids, USE_OMP build (lines 71-113)

\* most worker threads tried
MaxThreads == 3
\* most training rows tried there
ParRows == 2

\* line 80 rounding the lower end up
RangeLo_Ceil(kk, rank, nthreads) == (kk * rank + nthreads - 1) \div nthreads
\* lines 80-81: this thread is taking care of centroids c0:c1
RangeLo(kk, rank, nthreads) == (kk * rank) \div nthreads
\* line 81 rounding the upper end up
RangeHi_Ceil(kk, rank, nthreads) == (kk * (rank + 1) + nthreads - 1) \div nthreads
RangeHi(kk, rank, nthreads) == (kk * (rank + 1)) \div nthreads

\* compute_centroids called with hassign zeroed, any assignment vector
InitParallel ==
    /\ entry = "compute_centroids"
    /\ trainType = "TT_DEFAULT"
    /\ pqBits = 0
    /\ d \in 1..2
    /\ k \in 1..MaxUnitK
    /\ nx \in 1..ParRows
    /\ nt \in 1..MaxThreads
    /\ slice_len = nx
    /\ \E p \in {"ramp", "alt"} : slice = MakeSlice(p, nx, d)
    /\ x = slice
    /\ rot = [sd \in {seed, seed + 1} |-> 0]
    /\ sigma = 0
    /\ del1 = FALSE
    /\ centroids \in {[o \in 1..(k * d) |-> v] : v \in {0, One}}
    /\ assign \in [1..nx -> 0..(k - 1)]
    /\ dis = [i \in 1..nx |-> 0]
    /\ hassign = [c \in 1..k |-> 0]
    /\ prev_obj = HUGE_VAL
    /\ obj = 0
    /\ iter = 0
    /\ ci = 0
    /\ cj = 0
    /\ nsplit = 0
    /\ ret = "none"
    /\ ub = FALSE
    /\ pc = "memset"
    /\ run = 1
    /\ first = << >>
    /\ donors = << >>
    /\ dpos = 0
    /\ wi = << >>
    /\ writers = << >>

\* line 71, and the fork of line 74
ParMemset ==
    /\ pc = "memset"
    /\ centroids' = [o \in 1..(k * d) |-> 0]
    /\ wi' = [r \in 1..nt |-> 0]
    /\ writers' = [c \in 1..k |-> {}]
    /\ pc' = "accumulate"
    /\ UNCHANGED << inputs, x, nx, del1, loopvars, splitvars, ret, ub, runvars >>

\* lines 85-98: one pass of worker rank through the body of its loop
WorkerStep(rank) ==
    /\ pc = "accumulate"
    /\ wi[rank + 1] < nx
    /\ LET i  == wi[rank + 1]
           c  == assign[i + 1]
           c0 == RangeLo(k, rank, nt)
           c1 == RangeHi(k, rank, nt)
       IN  IF c < c0 \/ c >= c1
           THEN UNCHANGED << hassign, centroids, writers >>
           ELSE /\ hassign' = [hassign EXCEPT ![c + 1] = @ + One]
                /\ centroids' = [o \in 1..(k * d) |->
                       IF (o - 1) \div d = c
                       THEN centroids[o] + x[i * d + ((o - 1) % d) + 1]
                       ELSE centroids[o]]
                /\ writers' = [writers EXCEPT ![c + 1] = @ \cup {rank}]
    /\ wi' = [wi EXCEPT ![rank + 1] = @ + 1]
    /\ UNCHANGED << inputs, x, nx, del1, assign, dis, prev_obj, obj, iter,
                    splitvars, ret, ub, pc, runvars >>

\* line 99: the join at the end of the parallel region
ParJoin ==
    /\ pc = "accumulate"
    /\ \A r \in 1..nt : wi[r] = nx
    /\ pc' = "normalize"
    /\ UNCHANGED << inputs, x, nx, del1, centroids, loopvars, splitvars, ret,
                    ub, runvars, parvars >>

\* lines 103-112: each row with a nonzero count is scaled by 1 / count
Normalize ==
    /\ pc = "normalize"
    /\ centroids' = [o \in 1..(k * d) |->
           LET h == hassign[(o - 1) \div d + 1]
           IN  IF h = 0 THEN centroids[o] ELSE RoundDiv(centroids[o] * One, h)]
    /\ pc' = "done"
    /\ UNCHANGED << inputs, x, nx, del1, loopvars, splitvars, ret, ub, runvars,
                    parvars >>

NextParallel ==
    \/ ParMemset
    \/ \E rank \in 0..(nt - 1) : WorkerStep(rank)
    \/ ParJoin
    \/ Normalize

SpecParallel == InitParallel /\ [][NextParallel]_vars

\* ------------------------------------- init_hypercube on any d and nbits

\* largest nbits tried when init_hypercube is exercised directly
HcMaxBits == 3
\* most training rows tried there
HcMaxRows == 3

\* init_hypercube(d, nbits, n, x, centroids) entered with a buffer of
\* 2^nbits * d floats
InitHypercube ==
    /\ entry = "init_hypercube"
    /\ trainType = "TT_HYPERCUBE"
    /\ pqBits \in 0..HcMaxBits
    /\ d \in 1..MaxDim
    /\ k = 2 ^ pqBits
    /\ nx \in 0..HcMaxRows
    /\ slice_len = nx
    /\ \E p \in Patterns : slice = MakeSlice(p, nx, d)
    /\ x = slice
    /\ rot = [sd \in {seed, seed + 1} |-> 0]
    /\ sigma = 0
    /\ del1 = FALSE
    /\ centroids = [o \in 1..(k * d) |-> 0]
    /\ assign = << >>
    /\ dis = << >>
    /\ hassign = << >>
    /\ prev_obj = HUGE_VAL
    /\ obj = 0
    /\ iter = 0
    /\ ci = 0
    /\ cj = 0
    /\ nsplit = 0
    /\ ret = "none"
    /\ ub = FALSE
    /\ pc = "init"
    /\ run = 1
    /\ first = << >>
    /\ donors = << >>
    /\ dpos = 0
    /\ nt = 1
    /\ wi = << >>
    /\ writers = << >>

NextHypercube ==
    \/ HypercubeInit
    \/ OutOfBoundsCrash

SpecHypercube == InitHypercube /\ [][NextHypercube]_vars

\* fairness of the recomputation-and-repair run: every routine keeps
\* running, and a draw small enough to accept keeps occurring at the
\* candidates that can be accepted
DonorAccept == DonorDraw /\ pc' = "repair"

SpecRecomputeFair ==
    /\ InitRecompute
    /\ [][NextRecompute]_vars
    /\ WF_vars(NextRecompute)
    /\ SF_vars(DonorAccept)

\* ------------------------------------------------------------ properties

\* C1: a call with slice_len < k * 39 returns false in every initialization
\* mode: it never returns true, never ends without returning, and the
\* value it returns is false.
C1_LowDataFails ==
    (entry = "pq_train" /\ slice_len < k * min_points_per_centroid)
        => /\ ret # "true"
           /\ pc # "crashed"
           /\ (pc = "done" => ret = "false")

C1_Witness ==
    /\ pc = "crashed"
    /\ trainType = "TT_DEFAULT"
    /\ slice_len = k - 1
    /\ ret = "none"

\* C2: a call with slice_len = k returns true with the centroid table equal
\* to the training rows, row for row, without running any iteration.
C2_CornerCaseCopies ==
    (entry = "pq_train" /\ pc = "done" /\ slice_len = k)
        => /\ ret = "true"
           /\ centroids = slice
           /\ assign = << >>

\* C3: a call returns false exactly when slice_len < k * 39; with
\* slice_len >= k * 39 every return is true, also the one after 25
\* iterations that never met the early-stop test.
C3_OnlyLowDataFails ==
    (entry = "pq_train" /\ pc = "done")
        => /\ (slice_len >= k * min_points_per_centroid => ret = "true")
           /\ (ret = "false" <=> slice_len < k * min_points_per_centroid)

C3_Witness ==
    /\ pc = "done"
    /\ iter = max_iterations
    /\ slice_len >= k * min_points_per_centroid
    /\ ret = "true"

\* C4: a second call with the same metadata, slice, mode and seed returns
\* the same value and the same centroid table as the first.
C4_Reproducible ==
    (run = 2 /\ pc = "done")
        => (ret = first.ret /\ centroids = first.centroids)

\* C5 as stated: the objective of every iteration, the breaking one
\* included, is at most the objective of the iteration before.
C5_ObjectiveNeverIncreases ==
    (pc = "check" /\ prev_obj # HUGE_VAL) => obj <= prev_obj

\* C5 amended: the objective of every iteration after which the loop goes
\* on (no break) is at most the objective of the iteration before.
C5_ContinuedIterationsImprove ==
    [][(pc = "check" /\ pc' = "update" /\ prev_obj # HUGE_VAL)
           => obj <= prev_obj]_vars

C5_Witness ==
    /\ pc = "check"
    /\ iter >= 2
    /\ prev_obj # HUGE_VAL
    /\ obj < prev_obj
    /\ ~ShouldBreak(prev_obj, obj)

\* C6: when split_clusters returns after a recomputation pass over n >= k
\* rows no histogram entry is zero; every slot already examined is
\* nonzero, the repaired slot and its donor included.
C6_NoEmptyAfterRepair ==
    /\ (pc = "done" => \A c \in 1..k : hassign[c] > 0)
    /\ (pc \in {"split", "donor"} => \A c \in 1..k : c <= ci => hassign[c] > 0)

C6_Witness ==
    /\ pc = "done"
    /\ nx = k
    /\ nsplit >= 2

\* C7: for slice_len > k * 256 the iterations read k * 256 rows, row i a
\* copy of row perm[i] of the slice, perm a permutation of [0, slice_len),
\* so no row of the slice is taken twice; otherwise they read the slice
\* itself with its own row count.
C7_SubsampleRows ==
    (entry = "pq_train" /\ pc \notin {"init", "size", "crashed"} /\ ret # "false")
        => IF slice_len > k * max_points_per_centroid
           THEN LET perm == rand_perm(slice_len, seed)
                IN  /\ nx = k * max_points_per_centroid
                    /\ del1
                    /\ Len(x) = nx * d
                    /\ \A i \in 0..(nx - 1) :
                           Row(x, d, i) = Row(slice, d, perm[i + 1])
                    /\ (pc = "loop" /\ iter = 0 =>
                           Cardinality({perm[i] : i \in 1..nx}) = nx)
           ELSE x = slice /\ nx = slice_len /\ ~del1

C7_Witness ==
    /\ pc = "dist"
    /\ del1
    /\ rot[seed] = 1
    /\ Row(x, d, 0) # Row(slice, d, 0)
    /\ nx < slice_len

C9_WorkerRangesDisjoint ==
    /\ \A r1, r2 \in 0..(nt - 1) :
           r1 < r2 => RangeHi(k, r1, nt) <= RangeLo(k, r2, nt)
    /\ (pc \in {"accumulate", "normalize", "done"} =>
           \A c \in 1..k :
               /\ Cardinality(writers[c]) <= 1
               /\ \A r \in writers[c] :
                      RangeLo(k, r, nt) <= c - 1 /\ c - 1 < RangeHi(k, r, nt))

C9_Witness ==
    /\ pc = "done"
    /\ nt > k
    /\ \E c1, c2 \in 1..k :
           c1 # c2 /\ writers[c1] # {} /\ writers[c2] # {}

\* C10: when the slice is subsampled, the random-sample initializer works
\* on the subsample: every initial centroid is a row of the subsample.
C10_InitFromSubsample ==
    (entry = "pq_train" /\ pc = "loop" /\ iter = 0 /\ del1
        /\ trainType = "TT_DEFAULT")
        => \A c \in 0..(k - 1) : \E i \in 0..(nx - 1) :
               Row(centroids, d, c) = Row(x, d, i)

\* C11: a call runs at most 25 assignment passes; each iteration goes
\* assign, accumulate objective, convergence check, recompute, repair, in
\* that order; a recomputation is followed by one repair pass over the
\* slots 0..k-1, and only then by the next assignment pass or the return.
C11_IterationOrder ==
    [][/\ (pc = "loop" => pc' \in {"dist", "done"})
       /\ (pc' = "dist" => pc = "loop" /\ iter < max_iterations)
       /\ (pc = "dist" => pc' = "obj")
       /\ (pc = "obj" => pc' = "check")
       /\ (pc = "check" => pc' \in {"update", "done"})
       /\ (pc' = "update" => pc = "check")
       /\ (pc = "update" => pc' = "split" /\ ci' = 0 /\ nsplit' = 0)
       /\ (pc = "split" =>
              \/ pc' = "loop" /\ ci = k /\ iter' = iter + 1
              \/ pc' = "split" /\ ci' = ci + 1 /\ ci < k
              \/ pc' = "donor" /\ ci' = ci /\ ci < k)
       /\ (pc = "donor" => pc' \in {"donor", "repair"} /\ ci' = ci)
       /\ (pc = "repair" => pc' = "split" /\ ci' = ci + 1)
       /\ (pc' = "done" => pc \in {"size", "loop", "check"})
       /\ (iter' # iter => pc = "split" /\ pc' = "loop")
       /\ iter' <= max_iterations]_vars

C11_Witness ==
    /\ pc = "done"
    /\ ret = "true"
    /\ iter = max_iterations
    /\ nsplit >= 1
    /\ k = 2

C13_CountsAndMeans ==
    (entry = "pq_train" /\ pc = "split" /\ ci = 0) =>
        \A c \in 0..(k - 1) :
            LET cnt == Cardinality({i \in 1..nx : assign[i] = c})
            IN  /\ hassign[c + 1] = cnt * One
                /\ \A j \in 0..(d - 1) :
                       LET total == SumRange(
                               [i \in 1..nx |-> IF assign[i] = c
                                                THEN x[(i - 1) * d + j + 1] ELSE 0],
                               1, nx)
                           m == centroids[c * d + j + 1]
                       IN  IF cnt = 0 THEN m = 0
                           ELSE 2 * Abs(m * cnt - total) <= cnt

C13_Witness ==
    /\ entry = "pq_train"
    /\ pc = "split"
    /\ ci = 0
    /\ iter >= 1
    /\ k = 2
    /\ hassign[1] > 0
    /\ hassign[2] = 0
    /\ centroids[1] > 0

\* C14: after calculate_distances every assign[i] is a centroid index below
\* k, dis[i] is the least distance from row i to any centroid, and
\* assign[i] is the lowest index at that distance.
C14_NearestLowestIndex ==
    (entry = "pq_train" /\ pc = "obj") =>
        /\ Len(assign) = nx
        /\ Len(dis) = nx
        /\ \A i \in 1..nx :
               LET dist(c) == hnsw_dist_func(Row(x, d, i - 1),
                                             Row(centroids, d, c), d)
               IN  /\ assign[i] \in 0..(k - 1)
                   /\ dis[i] = dist(assign[i])
                   /\ \A c \in 0..(k - 1) :
                          /\ dis[i] <= dist(c)
                          /\ (c < assign[i] => dis[i] < dist(c))

C14_Witness ==
    /\ entry = "pq_train"
    /\ pc = "obj"
    /\ k = 2
    /\ Row(centroids, d, 0) # Row(centroids, d, 1)
    /\ \E i \in 1..nx : assign[i] = 1
    /\ \E i \in 1..nx : assign[i] = 0 /\ dis[i] > 0
    /\ \E i \in 1..nx :
           /\ assign[i] = 0
           /\ hnsw_dist_func(Row(x, d, i - 1), Row(centroids, d, 1), d) = dis[i]

\* C15: every centroid lies in the range of exactly one worker, so every
\* row is accumulated once; after the join the histogram and the sums, and
\* after the normalization the centroid table, are those of the
\* single-threaded compute_centroids, in every interleaving.
C15_ParallelEqualsSequential ==
    entry = "compute_centroids" =>
        LET seq == compute_centroids(d, k, nx, x, assign, [c \in 1..k |-> 0])
        IN  /\ \A c \in 0..(k - 1) :
                   Cardinality({r \in 0..(nt - 1) :
                       RangeLo(k, r, nt) <= c /\ c < RangeHi(k, r, nt)}) = 1
            /\ (pc \in {"normalize", "done"} =>
                   /\ hassign = seq.hassign
                   /\ SumRange(hassign, 1, k) = nx * One)
            /\ (pc = "normalize" =>
                   \A o \in 1..(k * d) :
                       centroids[o] = Accumulated(d, nx, x, assign,
                                                  (o - 1) \div d, (o - 1) % d))
            /\ (pc = "done" => centroids = seq.centroids)

C15_Witness ==
    /\ entry = "compute_centroids"
    /\ pc = "done"
    /\ nt = 2
    /\ k = 3
    /\ nx = 2
    /\ \E c1, c2 \in 1..k : writers[c1] = {0} /\ writers[c2] = {1}
    /\ \E o \in 1..(k * d) : centroids[o] > 0

\* C16: every repair takes a donor cj other than the empty slot ci and
\* leaves the centroid rows ci and cj different in some coordinate,
\* whatever the donor row was.
C16_RepairSeparates ==
    [][pc = "repair" =>
          /\ ci # cj
          /\ Row(centroids', d, ci) # Row(centroids', d, cj)]_vars

C16_Witness ==
    /\ entry = "pq_train"
    /\ pc = "split"
    /\ k = 2
    /\ ci = 2
    /\ nsplit = 1
    /\ hassign[1] > 0
    /\ hassign[2] > 0
    /\ Row(centroids, d, 0) = Row(centroids, d, 1)

\* C17: whenever the random-sample initializer has run, every position
\* i < k it read lies inside the permutation of length nx, every row index
\* perm[i] lies in [0, nx), and the k centroid rows are copies of k
\* distinct training rows; nothing was read out of bounds.
C17_InitRowsInRange ==
    (entry = "pq_train" /\ trainType = "TT_DEFAULT" /\ pc # "init") =>
        /\ ~ub
        /\ (pc = "size" =>
               LET perm == rand_perm(slice_len, seed + 1)
               IN  /\ \A c \in 0..(k - 1) :
                          /\ c < slice_len
                          /\ perm[c + 1] \in 0..(slice_len - 1)
                          /\ Row(centroids, d, c) = Row(slice, d, perm[c + 1])
                   /\ Cardinality({perm[c + 1] : c \in 0..(k - 1)}) = k)

C17_Witness ==
    /\ entry = "pq_train"
    /\ trainType = "TT_DEFAULT"
    /\ pc = "size"
    /\ ub
    /\ k = 2
    /\ slice_len = 1
    /\ Row(centroids, d, 0) = Row(slice, d, 0)
    /\ Row(centroids, d, 1) # Row(slice, d, 0)

\* C18: for every d and nbits the hypercube initializer writes, for each
\* centroid i, only columns [0, d) of row i, reads nothing out of bounds,
\* and leaves 2^nbits rows of d columns: mean[j] + maxm or mean[j] - maxm by
\* bit j of i in column j < nbits, mean[j] in the other columns.
C18_HypercubeStaysInRows ==
    entry = "init_hypercube" =>
        /\ pc # "crashed"
        /\ (pc = "done" =>
               /\ \A i \in 0..(k - 1) :
                      HypercubeWrites(d, pqBits, i) \subseteq (i * d)..(i * d + d - 1)
               /\ ~ub
               /\ Len(centroids) = k * d
               /\ (nx > 0 =>
                      LET mean == [j \in 0..(d - 1) |-> ColumnMean(x, d, nx, j)]
                          maxm == CHOOSE m \in {Abs(mean[j]) : j \in 0..(d - 1)} :
                                      \A j \in 0..(d - 1) : m >= Abs(mean[j])
                      IN  \A i \in 0..(k - 1) : \A j \in 0..(d - 1) :
                              centroids[i * d + j + 1] =
                                  IF j >= pqBits THEN mean[j]
                                  ELSE IF (i \div (2 ^ j)) % 2 = 1
                                       THEN mean[j] + maxm
                                       ELSE mean[j] - maxm))

C18_Witness ==
    /\ entry = "init_hypercube"
    /\ pc = "done"
    /\ ub
    /\ pqBits = 2
    /\ d = 1
    /\ nx > 0
    /\ centroids[1] # centroids[2]

\* C19: split_clusters keeps the histogram total at its value on entry, n:
\* a repair divides the donor's entry between the donor and the repaired
\* slot and changes no other entry, and no other step of split_clusters
\* changes the histogram.
C19_HistogramTotalKept ==
    [][/\ (pc = "update" => SumRange(hassign', 1, k) = nx * One)
       /\ (pc = "repair" =>
              /\ hassign'[ci + 1] + hassign'[cj + 1] = hassign[cj + 1]
              /\ hassign[ci + 1] = 0
              /\ \A c \in 1..k :
                     (c # ci + 1 /\ c # cj + 1) => hassign'[c] = hassign[c]
              /\ SumRange(hassign', 1, k) = SumRange(hassign, 1, k))
       /\ (pc \in {"split", "donor"} => hassign' = hassign)
       /\ (pc' = "done" => SumRange(hassign', 1, k) = nx * One)]_vars

C19_Witness ==
    /\ entry = "recompute"
    /\ pc = "done"
    /\ k = 3
    /\ nx = 4
    /\ nsplit = 2
    /\ SumRange(hassign, 1, k) = 4 * One

====
